---- MODULE Spec2Model ----
(***************************************************************************)
(* Back-testing core of QIA-Final-Regression-Test:                         *)
(*   - the two strategy simulators (strategy_two.py, strategy_three.py),   *)
(*   - the performance metrics engine (performance_analysis.py),           *)
(*   - the sensitivity harness (backtest_adjusted.py).                     *)
(* Prices are integers; moving averages and the averages of the metrics    *)
(* engine are exact fractions [num, den]; a data frame is a function from  *)
(* column names to columns, a column a function from the row index         *)
(* 0..L-1 to a value, so a missing column is a name outside DOMAIN df.     *)
(***************************************************************************)
EXTENDS Integers, Sequences, FiniteSets, TLC

VARIABLES
    df_original,   \* the caller's price table (columns "open", "close")
    variant,       \* "two" (dual MA crossover) or "three" (triple MA alignment)
    cfg,           \* the periods the simulator is called with
    stub,          \* <<>>, or the indicator columns a stub of calc_ma returns
    pc,            \* "start", "returned", "analysed"
    df,            \* the simulator's working copy of the table
    position,      \* the simulator's local position at return (0 flat, 1 long)
    avg_cost,      \* its local avg_cost at return
    cum_ret,       \* its local cum_ret at return
    entered,       \* history: steps at which the entry branch ran
    exited,        \* history: steps at which the exit branch ran
    perf,          \* result of the metrics engine on the returned table
    param_ranges,  \* harness: parameter name -> <<min, max>>
    iterations,    \* harness: number of trials asked for
    hpc,           \* harness: "idle", "trial", "redraw", "run", "done", or the exception raised
    trial,         \* harness: trials completed
    ma_p,          \* harness: the fast period drawn for the trial
    bb_p,          \* harness: the slow period drawn for the trial
    redraws,       \* history: 0 before the trial re-draws bb_p, then 1 / 2: re-draws odd / even
    results_list,  \* harness: the rows collected so far
    calls          \* history: the periods of each call of backtest_func, in order

simVars == <<df_original, variant, cfg, stub, pc, df, position, avg_cost, cum_ret,
             entered, exited, perf>>
harnessVars == <<param_ranges, iterations, hpc, trial, ma_p, bb_p, redraws,
                 results_list, calls>>
vars == <<simVars, harnessVars>>

\* ------------------------------------------------------------- arithmetic
RECURSIVE SumOver(_, _)
SumOver(f, S) ==
    IF S = {} THEN 0
    ELSE LET x == CHOOSE y \in S : TRUE IN f[x] + SumOver(f, S \ {x})

Max2(a, b) == IF a >= b THEN a ELSE b
Abs(x) == IF x < 0 THEN -x ELSE x

\* a float: NaN, +infinity, or the exact fraction num/den (den > 0)
NaN == [kind |-> "nan", num |-> 0, den |-> 1]
Inf == [kind |-> "inf", num |-> 1, den |-> 1]
Frac(n, d) == [kind |-> "num", num |-> n, den |-> d]
\* IEEE comparisons: every comparison with NaN is False
Lt(a, b) == a.kind = "num" /\ b.kind = "num" /\ a.num * b.den < b.num * a.den
Gt(a, b) == Lt(b, a)
\* equality of two floats as values
FEq(a, b) == a.kind = b.kind /\ (a.kind = "num" => a.num * b.den = b.num * a.den)

\* ------------------------------------------------------------ data frames
Rows(d) == DOMAIN d[CHOOSE c \in DOMAIN d : TRUE]
Length(d) == Cardinality(Rows(d))
HasCol(d, name) == name \in DOMAIN d
WithCol(d, name, col) ==
    [c \in DOMAIN d \cup {name} |-> IF c = name THEN col ELSE d[c]]
SetAt(d, name, t, v) ==
    [d EXCEPT ![name] = [d[name] EXCEPT ![t] = v]]
ConstCol(d, v) == [t \in Rows(d) |-> v]

\* f'MA{period}'
MACol(period) == "MA" \o ToString(period)

\* lib.technical_indicators.calc_ma: the simple moving average of the close
\* price over the last `period` rows, NaN until `period` rows are available
calc_ma(d, period) ==
    WithCol(d, MACol(period),
        [t \in Rows(d) |->
            IF t + 1 >= period
            THEN Frac(SumOver(d["close"], (t - period + 1)..t), period)
            ELSE NaN])

\* ------------------------------------------------------------- simulators
\* is_golden_cross looking at T-1 only
is_golden_cross_no_lag(d, t, short_ma_col, long_ma_col) ==
    Gt(d[short_ma_col][t - 1], d[long_ma_col][t - 1])

\* strategy_two.py: golden cross at T-1 (needs rows t-2 and t-1)
is_golden_cross(d, t, short_ma_col, long_ma_col) ==
    /\ Lt(d[short_ma_col][t - 2], d[long_ma_col][t - 2])
    /\ Gt(d[short_ma_col][t - 1], d[long_ma_col][t - 1])

\* strategy_two.py: mid price of the day below the day's short MA
mid_price_below(d, t, short_ma_col) ==
    Lt(Frac(d["open"][t] + d["close"][t], 2), d[short_ma_col][t])

\* is_bullish_alignment accepting equal averages
is_bullish_alignment_ties(d, t, short_ma_col, medium_ma_col, long_ma_col) ==
    /\ ~Lt(d[short_ma_col][t - 1], d[medium_ma_col][t - 1])
    /\ ~Lt(d[medium_ma_col][t - 1], d[long_ma_col][t - 1])
    /\ d[short_ma_col][t - 1].kind = "num"
    /\ d[medium_ma_col][t - 1].kind = "num"
    /\ d[long_ma_col][t - 1].kind = "num"

\* strategy_three.py: bullish alignment at T-1
is_bullish_alignment(d, t, short_ma_col, medium_ma_col, long_ma_col) ==
    /\ Gt(d[short_ma_col][t - 1], d[medium_ma_col][t - 1])
    /\ Gt(d[medium_ma_col][t - 1], d[long_ma_col][t - 1])

\* strategy_three.py: short MA below medium MA at T
short_below_medium(d, t, short_ma_col, medium_ma_col) ==
    Lt(d[short_ma_col][t], d[medium_ma_col][t])

\* realized_return with the open of the exit day as the exit price
realized_return_from_open(d, t, cost) == d["open"][t] - cost

\* ret = exit_price - avg_cost, the exit price being the close of the day
realized_return(d, t, cost) == d["close"][t] - cost

\* settle forgetting the unrealized value of the open position
settle_realized_only(d, t, pos, cost, cum) == cum

\* the daily settlement: cus = cum_ret + (close - avg_cost) when long,
\* cum_ret when flat
settle(d, t, pos, cost, cum) ==
    IF pos = 1 THEN cum + (d["close"][t] - cost) ELSE cum

\* LoopBody without position = 0 in the exit branch
LoopBodyStaysLong(st, t, enter, exit_cond) ==
    LET d == st.df
        pos1 == IF enter THEN 1 ELSE st.position
        cost1 == IF enter THEN d["open"][t] ELSE st.avg_cost
        exit == pos1 = 1 /\ exit_cond
        ret == realized_return(d, t, cost1)
        cum1 == IF exit THEN st.cum_ret + ret ELSE st.cum_ret
        pos2 == pos1
        cost2 == IF exit THEN 0 ELSE cost1
        d1 == IF exit THEN SetAt(d, "ret", t, ret) ELSE d
        d2 == SetAt(d1, "cus", t, settle(d, t, pos2, cost2, cum1))
        d3 == SetAt(d2, "position", t, pos2)
    IN  [df |-> d3, position |-> pos2, avg_cost |-> cost2, cum_ret |-> cum1,
         entered |-> IF enter THEN st.entered \cup {t} ELSE st.entered,
         exited |-> IF exit THEN st.exited \cup {t} ELSE st.exited]

\* One iteration of the loop of either simulator, run on the locals
\* st = [df, position, avg_cost, cum_ret] (entered / exited: the steps at
\* which the entry / exit branch ran): `enter` is the value of the entry
\* condition (position == 0 and the signal), `exit_cond` that of the exit
\* condition; then the daily settlement and the recording of the position.
LoopBody(st, t, enter, exit_cond) ==
    LET d == st.df
        pos1 == IF enter THEN 1 ELSE st.position
        cost1 == IF enter THEN d["open"][t] ELSE st.avg_cost
        exit == pos1 = 1 /\ exit_cond
        ret == realized_return(d, t, cost1)
        cum1 == IF exit THEN st.cum_ret + ret ELSE st.cum_ret
        pos2 == IF exit THEN 0 ELSE pos1
        cost2 == IF exit THEN 0 ELSE cost1
        d1 == IF exit THEN SetAt(d, "ret", t, ret) ELSE d
        d2 == SetAt(d1, "cus", t, settle(d, t, pos2, cost2, cum1))
        d3 == SetAt(d2, "position", t, pos2)
    IN  [df |-> d3, position |-> pos2, avg_cost |-> cost2, cum_ret |-> cum1,
         entered |-> IF enter THEN st.entered \cup {t} ELSE st.entered,
         exited |-> IF exit THEN st.exited \cup {t} ELSE st.exited]

\* strategy_two.py, one iteration: entry needs i > 1 and the golden cross
StrategyTwoStep(st, t, c) ==
    LoopBody(st, t,
             /\ st.position = 0
             /\ t > 1
             /\ is_golden_cross(st.df, t, MACol(c.short_ma_period),
                                MACol(c.long_ma_period)),
             mid_price_below(st.df, t, MACol(c.short_ma_period)))

\* strategy_three.py, one iteration
StrategyThreeStep(st, t, c) ==
    LoopBody(st, t,
             /\ st.position = 0
             /\ is_bullish_alignment(st.df, t, MACol(c.ma_short),
                                     MACol(c.ma_medium), MACol(c.ma_long)),
             short_below_medium(st.df, t, MACol(c.ma_short), MACol(c.ma_medium)))

\* for i in range(1, L)
RECURSIVE StrategyTwoLoop(_, _, _)
StrategyTwoLoop(st, t, c) ==
    IF t >= Length(st.df) THEN st
    ELSE StrategyTwoLoop(StrategyTwoStep(st, t, c), t + 1, c)

RECURSIVE StrategyThreeLoop(_, _, _)
StrategyThreeLoop(st, t, c) ==
    IF t >= Length(st.df) THEN st
    ELSE StrategyThreeLoop(StrategyThreeStep(st, t, c), t + 1, c)

\* the indicator columns MA{p} of the periods, in call order: computed by
\* calc_ma, or given by a stub of that collaborator (columns == <<>>: no stub)
RECURSIVE Indicators(_, _, _, _)
Indicators(d, periods, columns, k) ==
    IF k > Len(periods) THEN d
    ELSE Indicators(IF columns = <<>> THEN calc_ma(d, periods[k])
                    ELSE WithCol(d, MACol(periods[k]), columns[k]),
                    periods, columns, k + 1)

\* the three result columns and the locals before the loop
InitLocals(d) ==
    [df |-> WithCol(WithCol(WithCol(d, "ret", ConstCol(d, 0)),
                            "cus", ConstCol(d, 0)),
                    "position", ConstCol(d, 0)),
     position |-> 0, avg_cost |-> 0, cum_ret |-> 0, entered |-> {}, exited |-> {}]

\* the buy-and-hold column
WithBH(d) ==
    WithCol(d, "BH", [t \in Rows(d) |-> d["close"][t] - d["close"][0]])

\* the caller's table after a call made without copying it
caller_table_shared(original, working) == working

\* df = df.copy() (and df_original.copy() in the harness): the callee writes
\* to its own copy, the caller's table after the call is the one before it
caller_table(original, working) == original

\* the state after the call: the returned table and the locals at return
Returned(result, ran) ==
    \E st \in {result} :
    /\ df' = IF ran THEN WithBH(st.df) ELSE st.df
    /\ position' = st.position
    /\ avg_cost' = st.avg_cost
    /\ cum_ret' = st.cum_ret
    /\ entered' = st.entered
    /\ exited' = st.exited
    /\ pc' = "returned"
    /\ df_original' = caller_table(df_original, df')
    /\ UNCHANGED <<variant, cfg, stub, perf>>
    /\ UNCHANGED harnessVars

\* backtest_strategy_two(df, short_ma_period, long_ma_period)
backtest_strategy_two ==
    /\ pc = "start" /\ variant = "two"
    /\ LET d0 == Indicators(df_original,
                            <<cfg.short_ma_period, cfg.long_ma_period>>, stub, 1)
       IN IF Length(d0) < 2
          THEN Returned([df |-> d0, position |-> 0, avg_cost |-> 0, cum_ret |-> 0,
                         entered |-> {}, exited |-> {}], FALSE)
          ELSE Returned(StrategyTwoLoop(InitLocals(d0), 1, cfg), TRUE)

\* backtest_strategy_three(df, ma_short, ma_medium, ma_long)
backtest_strategy_three ==
    /\ pc = "start" /\ variant = "three"
    /\ LET d0 == Indicators(df_original,
                            <<cfg.ma_short, cfg.ma_medium, cfg.ma_long>>, stub, 1)
       IN IF Length(d0) < 2
          THEN Returned([df |-> d0, position |-> 0, avg_cost |-> 0, cum_ret |-> 0,
                         entered |-> {}, exited |-> {}], FALSE)
          ELSE Returned(StrategyThreeLoop(InitLocals(d0), 1, cfg), TRUE)

\* --------------------------------------------------------- metrics engine
\* NonZero keeping the positive returns only
RECURSIVE NonZeroPositive(_, _, _)
NonZeroPositive(col, t, n) ==
    IF t >= n THEN <<>>
    ELSE (IF col[t] > 0 THEN <<col[t]>> ELSE <<>>) \o NonZeroPositive(col, t + 1, n)

\* trades = df["ret"][df["ret"] != 0]: the non-zero returns in row order
RECURSIVE NonZero(_, _, _)
NonZero(col, t, n) ==
    IF t >= n THEN <<>>
    ELSE (IF col[t] # 0 THEN <<col[t]>> ELSE <<>>) \o NonZero(col, t + 1, n)

\* winning_trades taken as the trades above 1
SelectPosAboveOne(s) == SelectSeq(s, LAMBDA x : x > 1)

\* winning_trades = trades[trades > 0], losing_trades = trades[trades < 0]
SelectPos(s) == SelectSeq(s, LAMBDA x : x > 0)
SelectNeg(s) == SelectSeq(s, LAMBDA x : x < 0)

RECURSIVE SeqSum(_)
SeqSum(s) == IF s = <<>> THEN 0 ELSE Head(s) + SeqSum(Tail(s))
SeqMax(s) == CHOOSE x \in {s[k] : k \in DOMAIN s} : \A y \in {s[k] : k \in DOMAIN s} : x >= y
SeqMin(s) == CHOOSE x \in {s[k] : k \in DOMAIN s} : \A y \in {s[k] : k \in DOMAIN s} : x =< y

\* maxdrawdown(s): (s.cummax() - s).max(); NaN for an empty series
maxdrawdown(col, n) ==
    IF n = 0 THEN NaN
    ELSE LET cummax(t) == CHOOSE x \in {col[u] : u \in 0..t} :
                              \A u \in 0..t : x >= col[u]
             dd == {cummax(t) - col[t] : t \in 0..(n - 1)}
         IN Frac(CHOOSE x \in dd : \A y \in dd : x >= y, 1)

\* a str value
Str(text) == [kind |-> "str", text |-> text]

\* the fraction n/d >= 0 with two decimals and a percent sign, not scaled
FormatPercentUnscaled(n, d) ==
    LET twice == 2 * 100 * n
        fl == twice \div (2 * d)
        rem == twice - fl * 2 * d
        q == IF rem > d \/ (rem = d /\ fl % 2 = 1) THEN fl + 1 ELSE fl
        cents == q % 100
    IN Str(ToString(q \div 100) \o "." \o
           (IF cents < 10 THEN "0" ELSE "") \o ToString(cents) \o "%")

\* f"{x:.2%}" of the fraction n/d >= 0: the percentage with two decimals
FormatPercent(n, d) ==
    LET twice == 2 * 10000 * n
        fl == twice \div (2 * d)
        rem == twice - fl * 2 * d
        q == IF rem > d \/ (rem = d /\ fl % 2 = 1) THEN fl + 1 ELSE fl
        cents == q % 100
    IN Str(ToString(q \div 100) \o "." \o
           (IF cents < 10 THEN "0" ELSE "") \o ToString(cents) \o "%")

\* StreakStep keeping the opposite counter on a sign change
StreakStepNoReset(st, trade_return) ==
    LET cw == IF trade_return > 0 THEN st.current_win_streak + 1
              ELSE st.current_win_streak
        cl == IF trade_return < 0 THEN st.current_loss_streak + 1
              ELSE st.current_loss_streak
    IN [current_win_streak |-> cw, current_loss_streak |-> cl,
        longest_win_streak |-> Max2(st.longest_win_streak, cw),
        longest_loss_streak |-> Max2(st.longest_loss_streak, cl)]

\* one iteration of the scan for the longest winning / losing streaks
StreakStep(st, trade_return) ==
    LET cw == IF trade_return > 0 THEN st.current_win_streak + 1
              ELSE IF trade_return < 0 THEN 0 ELSE st.current_win_streak
        cl == IF trade_return > 0 THEN 0
              ELSE IF trade_return < 0 THEN st.current_loss_streak + 1
              ELSE st.current_loss_streak
    IN [current_win_streak |-> cw, current_loss_streak |-> cl,
        longest_win_streak |-> Max2(st.longest_win_streak, cw),
        longest_loss_streak |-> Max2(st.longest_loss_streak, cl)]

\* for trade_return in trades
RECURSIVE StreakScan(_, _, _)
StreakScan(trades, k, st) ==
    IF k > Len(trades) THEN st
    ELSE StreakScan(trades, k + 1, StreakStep(st, trades[k]))

\* profit_loss_ratio without the guard for a zero average loss
profit_loss_ratio_unguarded(profit, loss) ==
    IF loss.num = 0 THEN Frac(0, 1)
    ELSE Frac(Abs(profit.num * loss.den), Abs(profit.den * loss.num))

\* profit_loss_ratio: inf if avg_loss == 0, else abs(avg_profit / avg_loss)
profit_loss_ratio(profit, loss) ==
    IF loss.num = 0 THEN Inf
    ELSE Frac(Abs(profit.num * loss.den), Abs(profit.den * loss.num))

\* the record of an empty trade list, without its drawdown and win rate
empty_performance_short(cus_series, n, mdd) ==
    [raised |-> "no",
     final_equity |-> IF n > 0 THEN cus_series[n - 1] ELSE 0,
     net_profit |-> 0, total_trades |-> 0,
     total_profit |-> 0, total_loss |-> 0,
     num_winning_trades |-> 0, num_losing_trades |-> 0,
     max_profit_trade |-> 0, max_loss_trade |-> 0,
     avg_profit |-> Frac(0, 1), avg_loss |-> Frac(0, 1),
     profit_loss_ratio |-> Frac(0, 1),
     longest_win_streak |-> 0, longest_loss_streak |-> 0]

\* the record returned when total_trades == 0
empty_performance(cus_series, n, mdd) ==
    [raised |-> "no",
     final_equity |-> IF n > 0 THEN cus_series[n - 1] ELSE 0,
     net_profit |-> 0, mdd |-> mdd, total_trades |-> 0,
     win_rate |-> Str("0.00%"), total_profit |-> 0, total_loss |-> 0,
     num_winning_trades |-> 0, num_losing_trades |-> 0,
     max_profit_trade |-> 0, max_loss_trade |-> 0,
     avg_profit |-> Frac(0, 1), avg_loss |-> Frac(0, 1),
     profit_loss_ratio |-> Frac(0, 1),
     longest_win_streak |-> 0, longest_loss_streak |-> 0]

\* calculate_strategy_one_performance(df_backtest_output).  Keys of the
\* returned dict, in the order of the source:
\*   final_equity 最終權益 (Mark-to-Market), net_profit 淨利或淨損 (已實現),
\*   mdd 最大回撤 (MDD), total_profit 總獲利, total_loss 總損失,
\*   total_trades 總交易次數, num_winning_trades 賺錢交易次數,
\*   num_losing_trades 虧錢交易次數, win_rate 勝率, max_profit_trade
\*   單次交易最大獲利, max_loss_trade 單次交易最大損失, avg_profit
\*   獲利交易中的平均獲利, avg_loss 損失交易中的平均損失, profit_loss_ratio
\*   賺賠比, longest_win_streak / longest_loss_streak 最長的連續性獲利/損失的次數.
\* A missing "ret" or "cus" column raises KeyError.
calculate_strategy_one_performance(d) ==
    IF ~HasCol(d, "ret") \/ ~HasCol(d, "cus") THEN [raised |-> "KeyError"]
    ELSE
    LET n == Length(d)
        trades == NonZero(d["ret"], 0, n)
        cus_series == d["cus"]
        mdd == maxdrawdown(cus_series, n)
        total_trades == Len(trades)
        winning_trades == SelectPos(trades)
        losing_trades == SelectNeg(trades)
        total_profit == SeqSum(winning_trades)
        total_loss == SeqSum(losing_trades)
        num_winning_trades == Len(winning_trades)
        num_losing_trades == Len(losing_trades)
        avg_profit == IF num_winning_trades > 0
                      THEN Frac(total_profit, num_winning_trades) ELSE Frac(0, 1)
        avg_loss == IF num_losing_trades > 0
                    THEN Frac(total_loss, num_losing_trades) ELSE Frac(0, 1)
        st == StreakScan(trades, 1,
                [current_win_streak |-> 0, current_loss_streak |-> 0,
                 longest_win_streak |-> 0, longest_loss_streak |-> 0])
    IN  IF total_trades = 0
        THEN empty_performance(cus_series, n, mdd)
        ELSE [raised |-> "no",
              final_equity |-> cus_series[n - 1],
              net_profit |-> SeqSum(trades), mdd |-> mdd,
              total_profit |-> total_profit, total_loss |-> total_loss,
              total_trades |-> total_trades,
              num_winning_trades |-> num_winning_trades,
              num_losing_trades |-> num_losing_trades,
              win_rate |-> FormatPercent(num_winning_trades, total_trades),
              max_profit_trade |-> IF num_winning_trades > 0
                                   THEN SeqMax(winning_trades) ELSE 0,
              max_loss_trade |-> IF num_losing_trades > 0
                                 THEN SeqMin(losing_trades) ELSE 0,
              avg_profit |-> avg_profit, avg_loss |-> avg_loss,
              profit_loss_ratio |-> profit_loss_ratio(avg_profit, avg_loss),
              longest_win_streak |-> st.longest_win_streak,
              longest_loss_streak |-> st.longest_loss_streak]

\* the Simulator -> Metrics Engine pipeline: the metrics of the returned table
Analyse ==
    /\ pc = "returned"
    /\ perf' = calculate_strategy_one_performance(df)
    /\ pc' = "analysed"
    /\ UNCHANGED <<df_original, variant, cfg, stub, df, position, avg_cost,
                   cum_ret, entered, exited>>
    /\ UNCHANGED harnessVars

\* ---------------------------------------------------- sensitivity harness
\* random.randint(a, b): any integer of a..b
randint(range) == range[1]..range[2]

\* needs_redraw accepting equal periods
needs_redraw_strict(bb, ma) == bb < ma

\* the condition of the re-draw loop: while bb_p <= ma_p
needs_redraw(bb, ma) == bb =< ma

\* start of a trial: ma_p and bb_p are drawn (randint raises ValueError on an
\* empty range); the loop over the trials ends after `iterations` trials
DrawParameters ==
    /\ hpc = "trial"
    /\ IF trial >= iterations
       THEN /\ hpc' = "done"
            /\ UNCHANGED <<ma_p, bb_p, redraws>>
       ELSE IF randint(param_ranges.ma_period) = {}
               \/ randint(param_ranges.bb_period) = {}
       THEN /\ hpc' = "ValueError"
            /\ UNCHANGED <<ma_p, bb_p, redraws>>
       ELSE \E m \in randint(param_ranges.ma_period),
               b \in randint(param_ranges.bb_period) :
            /\ ma_p' = m
            /\ bb_p' = b
            /\ redraws' = 0
            /\ hpc' = IF needs_redraw(b, m) THEN "redraw" ELSE "run"
    /\ UNCHANGED <<param_ranges, iterations, trial, results_list, calls>>
    /\ UNCHANGED simVars

\* one iteration of the re-draw loop
Redraw ==
    /\ hpc = "redraw"
    /\ \E b \in randint(param_ranges.bb_period) :
         /\ bb_p' = b
         /\ hpc' = IF needs_redraw(b, ma_p) THEN "redraw" ELSE "run"
    /\ redraws' = IF redraws = 1 THEN 2 ELSE 1
    /\ UNCHANGED <<param_ranges, iterations, trial, ma_p, results_list, calls>>
    /\ UNCHANGED simVars

\* results_list.append putting the row in front
append_in_front(list, row) == <<row>> \o list

\* results_list.append(run_results)
append(list, row) == Append(list, row)

\* df_result: the table handed to backtest_func, with the 'position' column
\* of an injected backtest that never trades and the 'entry' and 'exit'
\* columns the harness adds to it
df_result(d) ==
    WithCol(WithCol(WithCol(d, "position", ConstCol(d, 0)),
                    "entry", ConstCol(d, FALSE)),
            "exit", ConstCol(d, FALSE))

\* the rest of the trial: the injected backtest and performance functions are
\* called (either may raise, and nothing catches it) and the row is appended.
\* bb_std and drop_threshold are drawn, passed on and rounded into the row
\* without being read by the harness; the row keeps the two periods and the
\* performance record.
RunTrial ==
    /\ hpc = "run"
    /\ calls' = Append(calls, <<ma_p, bb_p>>)
    /\ \/ /\ results_list' = append(results_list,
                   [ma_period |-> ma_p, bb_period |-> bb_p, performance |-> "metrics"])
          /\ trial' = trial + 1
          /\ hpc' = "trial"
          /\ df' = df_result(df_original)
          /\ df_original' = caller_table(df_original, df')
       \/ /\ hpc' = "Exception"
          /\ UNCHANGED <<results_list, trial, df, df_original>>
    /\ UNCHANGED <<param_ranges, iterations, ma_p, bb_p, redraws>>
    /\ UNCHANGED <<variant, cfg, stub, pc, position, avg_cost, cum_ret,
                   entered, exited, perf>>

\* --------------------------------------------------------- specification
MaxLen == 4
MaxLongLen == 8
MaxHigh == 5
Prices == {1, 2}
Periods == {1, 2, 3}

Table(L, Opens, Closes) ==
    { [c \in {"open", "close"} |-> IF c = "open" THEN o ELSE cl] :
        o \in [0..(L - 1) -> Opens], cl \in [0..(L - 1) -> Closes] }

\* a table without gaps: every open is the close of the row before
GapLess(cl) ==
    [c \in {"open", "close"} |->
        IF c = "close" THEN cl
        ELSE [t \in DOMAIN cl |-> IF t = 0 THEN cl[0] ELSE cl[t - 1]]]

StrictlyDeclining(col) ==
    \A t \in DOMAIN col : t > 0 => col[t] < col[t - 1]

\* the tables without gaps whose closes are the columns cols
GapLessTables(cols) == {GapLess(cl) : cl \in cols}

\* every table of at most MaxLen rows over Prices, the longer tables without
\* gaps, and the strictly declining tables without gaps over 1..MaxHigh
InTables(d) ==
    \/ \E L \in 0..MaxLen : d \in Table(L, Prices, Prices)
    \/ \E L \in (MaxLen + 1)..MaxLongLen :
          d \in GapLessTables([0..(L - 1) -> Prices])
    \/ \E L \in 2..MaxHigh :
          d \in GapLessTables({c \in [0..(L - 1) -> 1..MaxHigh] : StrictlyDeclining(c)})

Configs(v) ==
    IF v = "two"
    THEN [short_ma_period : Periods, long_ma_period : Periods]
    ELSE [ma_short : Periods, ma_medium : Periods, ma_long : Periods]

HarnessIdle ==
    /\ param_ranges = [ma_period |-> <<3, 15>>, bb_period |-> <<16, 40>>]
    /\ iterations = 0
    /\ hpc = "idle"
    /\ trial = 0
    /\ ma_p = 0
    /\ bb_p = 0
    /\ redraws = 0
    /\ results_list = <<>>
    /\ calls = <<>>

Idle ==
    /\ HarnessIdle
    /\ pc = "start"
    /\ df = df_original
    /\ position = 0
    /\ avg_cost = 0
    /\ cum_ret = 0
    /\ entered = {}
    /\ exited = {}
    /\ perf = [raised |-> "none"]

\* a direct call of either simulator on any table, with any periods
Init ==
    /\ InTables(df_original)
    /\ variant \in {"two", "three"}
    /\ cfg \in Configs(variant)
    /\ stub = <<>>
    /\ Idle

Next ==
    \/ backtest_strategy_two
    \/ backtest_strategy_three
    \/ Analyse

Spec == Init /\ [][Next]_vars

\* Scenario B: the 5-row table, the simulators called with their default
\* periods, the indicator columns given by a stub of calc_ma
ScenarioB ==
    [c \in {"open", "close"} |->
        IF c = "open" THEN (0 :> 10 @@ 1 :> 11 @@ 2 :> 12 @@ 3 :> 9 @@ 4 :> 8)
        ELSE (0 :> 10 @@ 1 :> 12 @@ 2 :> 11 @@ 3 :> 8 @@ 4 :> 7)]

StubLevels == {9, 10, 11}
Level(d, v) == [t \in Rows(d) |-> Frac(v, 1)]

\* the stubs: any short column over StubLevels, medium (or, for the dual
\* variant, long) column at 10, long column at 9
Stubs(d, v) ==
    { IF v = "two" THEN <<[t \in Rows(d) |-> Frac(short[t], 1)], Level(d, 10)>>
      ELSE <<[t \in Rows(d) |-> Frac(short[t], 1)], Level(d, 10), Level(d, 9)>> :
        short \in [Rows(d) -> StubLevels] }

DefaultConfig(v) ==
    IF v = "two" THEN [short_ma_period |-> 5, long_ma_period |-> 20]
    ELSE [ma_short |-> 3, ma_medium |-> 5, ma_long |-> 10]

InitB ==
    /\ df_original = ScenarioB
    /\ variant \in {"two", "three"}
    /\ cfg = DefaultConfig(variant)
    /\ stub \in Stubs(df_original, variant)
    /\ Idle

SpecB == InitB /\ [][Next]_vars

\* The metrics engine on its own: any table of at most MaxRows rows with
\* "ret" over TradeValues and "cus" over EquityValues, and Scenario C's trade
\* list (also with flat rows in between), its equity the running sum.
MaxRows == 3
TradeValues == -2..2
EquityValues == -1..1

ScenarioC == <<5, -2, 3, -1, -4, 2>>
ScenarioCPadded == <<0, 5, -2, 0, 0, 3, -1, -4, 0, 2, 0>>

FlatTable(rets) ==
    [c \in {"ret", "cus"} |->
        IF c = "ret" THEN [t \in 0..(Len(rets) - 1) |-> rets[t + 1]]
        ELSE [t \in 0..(Len(rets) - 1) |-> SeqSum(SubSeq(rets, 1, t + 1))]]

MetricTables(L) ==
    { [c \in {"ret", "cus"} |-> IF c = "ret" THEN r ELSE e] :
        r \in [0..(L - 1) -> TradeValues], e \in [0..(L - 1) -> EquityValues] }

InitM ==
    /\ \/ \E L \in 0..MaxRows : df \in MetricTables(L)
       \/ df \in {FlatTable(ScenarioC), FlatTable(ScenarioCPadded)}
    /\ df_original = df
    /\ variant = "none"
    /\ cfg = [none |-> 0]
    /\ stub = <<>>
    /\ pc = "returned"
    /\ position = 0
    /\ avg_cost = 0
    /\ cum_ret = 0
    /\ entered = {}
    /\ exited = {}
    /\ perf = [raised |-> "none"]
    /\ HarnessIdle

NextM == Analyse

SpecM == InitM /\ [][NextM]_vars

\* The harness: sensitivity_analysis called with any ranges over 1..MaxParam
\* and any trial count up to MaxIterations
MaxParam == 3
MaxIterations == 2

Ranges == (1..MaxParam) \X (1..MaxParam)

InitH ==
    /\ param_ranges \in [ma_period : Ranges, bb_period : Ranges]
    /\ iterations \in 0..MaxIterations
    /\ hpc = "trial"
    /\ trial = 0
    /\ ma_p = 0
    /\ bb_p = 0
    /\ redraws = 0
    /\ results_list = <<>>
    /\ calls = <<>>
    /\ df_original \in Table(1, Prices, Prices)
    /\ df = df_original
    /\ variant = "none"
    /\ cfg = [none |-> 0]
    /\ stub = <<>>
    /\ pc = "idle"
    /\ position = 0
    /\ avg_cost = 0
    /\ cum_ret = 0
    /\ entered = {}
    /\ exited = {}
    /\ perf = [raised |-> "none"]

NextH ==
    \/ DrawParameters
    \/ Redraw
    \/ RunTrial

SpecH == InitH /\ [][NextH]_vars

\* Simulator calls and harness batches side by side
InitF == Init \/ InitH

NextF == Next \/ NextH

SpecF == InitF /\ [][NextF]_vars

\* the re-draw loop and the trial loop keep running
FairSpecH == SpecH /\ WF_vars(NextH)

\* ----------------------------------------------------------------- claims
Done == pc \in {"returned", "analysed"}
Recorded == Done /\ HasCol(df, "cus")
LastRow == Length(df) - 1

\* the open price of the latest entry at or before step t
EntryPrice(t) ==
    LET before == {u \in entered : u =< t}
    IN df["open"][CHOOSE u \in before : \A w \in before : w =< u]

\* the unrealized value of the position recorded at step t
Unrealized(t) ==
    IF df["position"][t] = 1 THEN df["close"][t] - EntryPrice(t) ELSE 0

\* the position at the start of step t: the one recorded at the end of t - 1
StartPosition(t) == df["position"][t - 1]
LongDuring(t) == StartPosition(t) = 1 \/ t \in entered

\* C1: in both simulators, at every step t the recorded equity cus[t] is the
\* sum of the trade returns ret[0..t] plus close[t] - entry price when the
\* recorded position is Long (plus 0 when Flat); the final equity reported
\* by the metrics engine is the sum of the non-zero trade returns plus the
\* unrealized value at the last step.
C1_EquityIsRealizedPlusUnrealized ==
    /\ Recorded =>
          \A t \in Rows(df) :
              df["cus"][t] = SumOver(df["ret"], 0..t) + Unrealized(t)
    /\ (pc = "analysed" /\ perf.raised = "no") =>
          perf.final_equity = perf.net_profit + Unrealized(LastRow)

C1_Witness ==
    /\ pc = "analysed" /\ perf.raised = "no"
    /\ Cardinality(exited) >= 2
    /\ perf.net_profit # 0
    /\ \E u \in exited, t \in Rows(df) :
          u < t /\ df["ret"][u] # 0 /\ Unrealized(t) # 0

\* C2: for every price series of fewer than 2 rows both simulators return an
\* all-Flat, all-zero trajectory (position, ret and cus are 0 on every row)
\* and the metrics engine handles that table without failing.
C2_ShortSeriesAllZero ==
    (Done /\ Length(df) < 2) =>
        /\ HasCol(df, "position") /\ HasCol(df, "ret") /\ HasCol(df, "cus")
        /\ \A t \in Rows(df) :
              df["position"][t] = 0 /\ df["ret"][t] = 0 /\ df["cus"][t] = 0
        /\ pc = "analysed" => perf.raised = "no"

\* C3: in the triple moving-average simulator, at every step t >= 1: Flat at
\* the start of t, it enters iff short MA > medium MA > long MA strictly at
\* t-1; Long during t (also just entered), it exits iff short MA < medium MA
\* at t, and the exit records ret[t] = close[t] - entry price.
C3_TripleTransitions ==
    (Recorded /\ variant = "three") =>
        LET S == df[MACol(cfg.ma_short)]
            M == df[MACol(cfg.ma_medium)]
            G == df[MACol(cfg.ma_long)]
        IN \A t \in Rows(df) \ {0} :
            /\ StartPosition(t) = 0 =>
                  (t \in entered <=> (Gt(S[t - 1], M[t - 1]) /\ Gt(M[t - 1], G[t - 1])))
            /\ StartPosition(t) = 1 => t \notin entered
            /\ LongDuring(t) => (t \in exited <=> Lt(S[t], M[t]))
            /\ ~LongDuring(t) => t \notin exited
            /\ t \in exited => df["ret"][t] = df["close"][t] - EntryPrice(t)
            /\ t \notin exited => df["ret"][t] = 0

C3_Witness ==
    /\ Recorded /\ variant = "three"
    /\ entered # {} /\ exited # {}
    /\ \E t \in exited : t \notin entered
    /\ \E t \in Rows(df) \ {0} :
          /\ StartPosition(t) = 0 /\ t \notin entered
          /\ df[MACol(cfg.ma_long)][t - 1].kind = "num"
          /\ FEq(df[MACol(cfg.ma_short)][t - 1], df[MACol(cfg.ma_medium)][t - 1])
          /\ Gt(df[MACol(cfg.ma_medium)][t - 1], df[MACol(cfg.ma_long)][t - 1])

\* C4: in the dual moving-average simulator an entry happens at step t only
\* if t >= 2, the simulator is Flat at the start of t, short MA < long MA at
\* t-2 and short MA > long MA at t-1; Long during t, it exits iff
\* (open[t] + close[t]) / 2 < short MA at t, recording ret[t] = close[t] -
\* entry price; steps 0 and 1 are Flat with zero equity.
C4_DualTransitions ==
    (Recorded /\ variant = "two") =>
        LET S == df[MACol(cfg.short_ma_period)]
            G == df[MACol(cfg.long_ma_period)]
        IN /\ \A t \in Rows(df) \ {0} :
                /\ t \in entered =>
                      /\ t >= 2
                      /\ StartPosition(t) = 0
                      /\ Lt(S[t - 2], G[t - 2])
                      /\ Gt(S[t - 1], G[t - 1])
                /\ LongDuring(t) =>
                      (t \in exited <=>
                          /\ S[t].kind = "num"
                          /\ (df["open"][t] + df["close"][t]) * S[t].den < 2 * S[t].num)
                /\ ~LongDuring(t) => t \notin exited
                /\ t \in exited => df["ret"][t] = df["close"][t] - EntryPrice(t)
                /\ t \notin exited => df["ret"][t] = 0
           /\ \A t \in Rows(df) \cap {0, 1} :
                df["position"][t] = 0 /\ df["cus"][t] = 0

C4_Witness ==
    /\ Recorded /\ variant = "two"
    /\ \E t \in exited : t \notin entered /\ df["ret"][t] # 0
    /\ \E t \in entered : t \notin exited
    /\ \E t \in Rows(df) :
          /\ t >= 2 /\ StartPosition(t) = 0 /\ t \notin entered
          /\ Gt(df[MACol(cfg.short_ma_period)][t - 1], df[MACol(cfg.long_ma_period)][t - 1])

\* C6 (as amended): on Scenario B's table, when the entry branch runs at step
\* 1 only and the exit branch at step 3 only, the single non-zero trade
\* return is ret[3] = close[3] - open[1] = -3 and the equity sequence is
\* [0, 1, 0, -3, -3].
C6_ScenarioB ==
    (Done /\ df_original = ScenarioB /\ entered = {1} /\ exited = {3}) =>
        /\ df["ret"] = (0 :> 0 @@ 1 :> 0 @@ 2 :> 0 @@ 3 :> -3 @@ 4 :> 0)
        /\ df["cus"] = (0 :> 0 @@ 1 :> 1 @@ 2 :> 0 @@ 3 :> -3 @@ 4 :> -3)

\* C6 as stated: the equity sequence is [0, 0, 1, -3, -3]
C6_ScenarioB_AsStated ==
    (Done /\ df_original = ScenarioB /\ entered = {1} /\ exited = {3}) =>
        /\ df["ret"] = (0 :> 0 @@ 1 :> 0 @@ 2 :> 0 @@ 3 :> -3 @@ 4 :> 0)
        /\ df["cus"] = (0 :> 0 @@ 1 :> 0 @@ 2 :> 1 @@ 3 :> -3 @@ 4 :> -3)

C6_Witness ==
    /\ pc = "returned" /\ df_original = ScenarioB
    /\ entered = {1} /\ exited = {3}
    /\ df["position"] = (0 :> 0 @@ 1 :> 1 @@ 2 :> 1 @@ 3 :> 0 @@ 4 :> 0)

\* the realized trade list of the analysed table
Trades == NonZero(df["ret"], 0, Length(df))
Analysed == pc = "analysed" /\ perf.raised = "no"

\* C7 (as amended): for the trade list [5, -2, 3, -1, -4, 2] the metrics
\* engine reports a longest winning streak of 1 and a longest losing streak
\* of 2 (the consecutive losers -1, -4).
C7_ScenarioCStreaks ==
    (Analysed /\ Trades = ScenarioC) =>
        perf.longest_win_streak = 1 /\ perf.longest_loss_streak = 2

\* C7 as stated: longest winning streak 1 and longest losing streak 1
C7_ScenarioCStreaks_AsStated ==
    (Analysed /\ Trades = ScenarioC) =>
        perf.longest_win_streak = 1 /\ perf.longest_loss_streak = 1

C7_Witness ==
    /\ Analysed /\ Trades = ScenarioC /\ Length(df) = Len(ScenarioC)
    /\ perf.longest_loss_streak = 2

\* the statistics of Scenario C other than the win rate
ScenarioCStatistics ==
    /\ perf.total_trades = 6
    /\ perf.num_winning_trades = 3 /\ perf.total_profit = 10
    /\ perf.num_losing_trades = 3 /\ perf.total_loss = -7
    /\ perf.max_profit_trade = 5 /\ perf.max_loss_trade = -4
    /\ FEq(perf.avg_profit, Frac(10, 3))
    /\ FEq(perf.avg_loss, Frac(-7, 3))
    /\ FEq(perf.profit_loss_ratio, Frac(10, 7))

C9_SlowAboveFast ==
    \A k \in DOMAIN results_list :
        results_list[k].bb_period > results_list[k].ma_period

C9_Witness ==
    /\ hpc = "done" /\ Len(results_list) = 2 /\ redraws # 0
    /\ param_ranges.bb_period[1] =< param_ranges.ma_period[2]

\* C10: when no value of the slow range is above the drawn fast period, the
\* re-draw loop ends in a ConfigurationError (it does not loop forever).
C10_RedrawEndsInConfigurationError ==
    (hpc = "redraw" /\ \A b \in randint(param_ranges.bb_period) : b =< ma_p)
        ~> (hpc = "ConfigurationError")

\* C5: on a strictly declining price series the triple moving-average
\* simulator never enters, whatever the three periods: no trade, an all-zero
\* equity curve and a maximum drawdown of 0.
C5_DecliningNeverEnters ==
    (pc = "analysed" /\ variant = "three" /\ Length(df) >= 2
        /\ StrictlyDeclining(df["close"])) =>
        /\ entered = {}
        /\ \A t \in Rows(df) : df["ret"][t] = 0 /\ df["cus"][t] = 0
        /\ perf.total_trades = 0
        /\ FEq(perf.mdd, Frac(0, 1))

\* a config whose periods are not strictly increasing
Malformed ==
    IF variant = "two" THEN cfg.short_ma_period >= cfg.long_ma_period
    ELSE ~(cfg.ma_short < cfg.ma_medium /\ cfg.ma_medium < cfg.ma_long)

\* C11: a simulator called with a malformed config (short period >= long
\* period; for the triple variant, periods not strictly increasing) ends in a
\* configuration error before the loop and returns no trajectory.
C11_MalformedConfigRejected ==
    (variant \in {"two", "three"} /\ Malformed) =>
        (pc # "start" => pc = "ConfigurationError")

\* C12: a trial whose simulator or metrics call fails does not abort the
\* batch: sensitivity_analysis is never ended by the exception of a trial.
C12_FailingTrialDoesNotAbort ==
    hpc # "Exception"

\* C13: the profit/loss ratio is +infinity exactly when the trade list has at
\* least one winning trade and no losing trade; otherwise (empty list, or at
\* least one loser) it is a finite number.
C13_RatioInfiniteIffOnlyWinners ==
    Analysed =>
        LET winners == \E k \in 1..Len(Trades) : Trades[k] > 0
            losers == \E k \in 1..Len(Trades) : Trades[k] < 0
        IN  /\ perf.profit_loss_ratio.kind = "inf" <=> (winners /\ ~losers)
            /\ perf.profit_loss_ratio.kind \in {"inf", "num"}
            /\ perf.profit_loss_ratio.kind = "num" =>
                   perf.profit_loss_ratio.den # 0

C13_Witness ==
    /\ Analysed
    /\ perf.profit_loss_ratio.kind = "inf"
    /\ Len(Trades) >= 2

\* the equity curve never falls from one step to the next
NonDecreasing(col, n) == \A t \in 1..(n - 1) : col[t - 1] =< col[t]

\* C14: for every equity curve the maximum drawdown is >= 0, and it is 0 when
\* the curve is non-decreasing throughout, with or without realized trades.
C14_DrawdownNonNegative ==
    Analysed =>
        /\ ~Lt(perf.mdd, Frac(0, 1))
        /\ perf.mdd.kind = "num"
        /\ NonDecreasing(df["cus"], Length(df)) => FEq(perf.mdd, Frac(0, 1))

\* the keys of a PerformanceRecord
PerformanceKeys ==
    {"raised", "final_equity", "net_profit", "mdd", "total_trades", "win_rate",
     "total_profit", "total_loss", "num_winning_trades", "num_losing_trades",
     "max_profit_trade", "max_loss_trade", "avg_profit", "avg_loss",
     "profit_loss_ratio", "longest_win_streak", "longest_loss_streak"}

\* the record has the fixed keys; with an empty trade list the final equity
\* is the last equity point, the drawdown is the one of the equity curve and
\* the counts, sums, extremes, averages, ratio and streaks are 0
EmptyListRecord(win_rate) ==
    LET n == Length(df)
    IN  /\ DOMAIN perf = PerformanceKeys
        /\ Trades = <<>> =>
            /\ n > 0 => perf.final_equity = df["cus"][n - 1]
            /\ perf.mdd = maxdrawdown(df["cus"], n)
            /\ n > 0 => perf.mdd.kind = "num"
            /\ perf.win_rate = win_rate
            /\ \A k \in {"net_profit", "total_trades", "total_profit",
                         "total_loss", "num_winning_trades",
                         "num_losing_trades", "max_profit_trade",
                         "max_loss_trade", "longest_win_streak",
                         "longest_loss_streak"} : perf[k] = 0
            /\ \A k \in {"avg_profit", "avg_loss", "profit_loss_ratio"} :
                   perf[k] = Frac(0, 1)

C16_OneRowPerTrial ==
    /\ hpc = "done" =>
        /\ Len(results_list) = iterations
        /\ Len(calls) = iterations
        /\ \A k \in 1..iterations :
            /\ results_list[k].ma_period = calls[k][1]
            /\ results_list[k].bb_period = calls[k][2]
    /\ (iterations = 0 /\ hpc # "idle") =>
        /\ hpc \in {"trial", "done"}
        /\ calls = <<>>
        /\ results_list = <<>>

C16_Witness ==
    /\ hpc = "done"
    /\ iterations = MaxIterations
    /\ Len(results_list) = MaxIterations
    /\ results_list[1] # results_list[MaxIterations]

C18_NoReentryWithinStep ==
    Recorded =>
        /\ position = df["position"][LastRow]
        /\ 0 \notin entered \cup exited
        /\ \A t \in Rows(df) \ {0} :
            /\ df["position"][t] \in {0, 1}
            /\ t \in entered => StartPosition(t) = 0
            /\ t \in exited => (StartPosition(t) = 1 \/ t \in entered)
            /\ t \in exited => df["position"][t] = 0
            /\ (t \in entered /\ t \notin exited) => df["position"][t] = 1
            /\ (t \notin entered /\ t \notin exited) =>
                   df["position"][t] = StartPosition(t)

C18_Witness ==
    /\ Recorded
    /\ \E t \in exited : t \in entered
    /\ \E t \in exited : t \notin entered /\ t + 1 \in entered

\* the exits whose round trip closed at a price other than its entry price
NonZeroExits == {t \in exited : df["close"][t] # EntryPrice(t)}

\* C19 (amended): every completed Flat->Long->Flat round trip with a non-zero
\* return contributes exactly one entry to the realized trade list, so the
\* reported total trade count is the number of exits whose return is not 0
\* (a round trip closed at its entry price leaves ret 0 and is not counted);
\* ret[t] is non-zero only at steps where an exit occurred.
C19_TradeCountIsNonZeroExits ==
    Analysed =>
        /\ perf.total_trades = Cardinality(NonZeroExits)
        /\ \A t \in Rows(df) : df["ret"][t] # 0 => t \in exited

\* C19 as stated: the reported total trade count is the number of exits
C19_TradeCountIsExits ==
    Analysed =>
        /\ perf.total_trades = Cardinality(exited)
        /\ \A t \in Rows(df) : df["ret"][t] # 0 => t \in exited

C19_Witness ==
    /\ Analysed
    /\ Cardinality(exited) >= 2
    /\ NonZeroExits # {}
    /\ NonZeroExits # exited

\* C20: for every trade list the longest win streak plus the longest loss
\* streak is at most the total trade count, the longest win streak is at most
\* the winning-trade count and the longest loss streak at most the
\* losing-trade count, both streaks are 0 for the empty trade list, the
\* winning and losing counts add up to the total count and the total profit
\* and total loss add up to the net realized profit/loss.
C20_StreaksAndTotals ==
    Analysed =>
        /\ perf.total_trades = Len(Trades)
        /\ perf.longest_win_streak + perf.longest_loss_streak =< perf.total_trades
        /\ perf.longest_win_streak =< perf.num_winning_trades
        /\ perf.longest_loss_streak =< perf.num_losing_trades
        /\ Trades = <<>> =>
               perf.longest_win_streak = 0 /\ perf.longest_loss_streak = 0
        /\ perf.num_winning_trades + perf.num_losing_trades = perf.total_trades
        /\ perf.total_profit + perf.total_loss = perf.net_profit

C20_Witness ==
    /\ Analysed
    /\ Len(Trades) = MaxRows
    /\ perf.num_losing_trades >= 1
    /\ perf.longest_win_streak >= 1
    /\ perf.longest_win_streak < perf.num_winning_trades
    /\ perf.total_profit + perf.total_loss # 0
====
